---- MODULE Spec2Model ----
(***************************************************************************)
(* Island-model evolutionary scheduler: the population endpoint            *)
(* (init_population and its helpers) and the fitness endpoint              *)
(* (fitnessTrigger) of function_app.py; fitnessTrigger.py holds the same   *)
(* fitnessTrigger handler, line for line.                                  *)
(*                                                                         *)
(* Python lists are sequences (task i of the code is position i+1 here);   *)
(* core numbers and island ids keep the code's 0-based values.  A          *)
(* chromosome is a Python list object: the population holds references     *)
(* (object ids) and `heap` holds the lists they refer to, so that two      *)
(* slots holding the same list are distinguishable from two equal lists.   *)
(* Floats that matter (rates, random.random() draws, fitness) are exact    *)
(* fractions [num, den] with den > 0.                                      *)
(***************************************************************************)
EXTENDS Integers, Sequences, FiniteSets, TLC

\* ------------------------------------------------------------------ bounds
\* Largest value of each integer run parameter that a request may carry.
MaxTasks == 2
MaxCores == 2
MaxIslands == 2
MaxGenerations == 2
MaxInterval == 2
\* Rates and random.random() draws are multiples of 1/RateDenom.
RateDenom == 2
\* A run request carries at most MaxBad parameters that fail validation.
MaxBad == 1
\* Task times drawn by generate_task_times are kept to MinTaskTime..TimeBound.
TimeBound == 1
\* Fitness posts of one run that fail in transport.
MaxFailures == 2
\* Direct fitness requests: list lengths, task times and core numbers.
FitMaxLen == 2
FitMaxTime == 2
FitMaxCores == 2
\* Stand-alone mutate calls: number of repeated applications followed.
MaxCalls == 3
\* Stand-alone migrate calls: islands of the population passed in, and
\* individuals an island holds when migrate is called.
MigMaxIslands == 3
MigMaxLen == 1

\* ------------------------------------------------------- program constants
MinTaskTime == 1
MaxTaskTime == 10

\* ----------------------------------------------------------------- helpers
Frac(n, d) == [num |-> n, den |-> d]

\* a < b on fractions with positive denominators (Python float <)
Less(a, b) == a.num * b.den < b.num * a.den

\* a <= b on fractions
LessEq(a, b) == a.num * b.den <= b.num * a.den

RECURSIVE SumSeq(_)
SumSeq(s) == IF s = <<>> THEN 0 ELSE Head(s) + SumSeq(Tail(s))

\* Python max() of a non-empty list
MaxSeq(s) == CHOOSE m \in {s[i] : i \in 1..Len(s)} : \A i \in 1..Len(s) : s[i] <= m

\* all sequences over S of length lo..hi
SeqsOf(S, lo, hi) == UNION {[1..n -> S] : n \in lo..hi}

\* ------------------------------------------------------- fitness endpoint
\* JSON values of a request body: None, a list of integers, an integer, or
\* a non-numeric string.
NoneVal == [kind |-> "none", val |-> 0, items |-> <<>>]
IntVal(n) == [kind |-> "int", val |-> n, items |-> <<>>]
TextVal == [kind |-> "text", val |-> 0, items |-> <<>>]
ListVal(s) == [kind |-> "list", val |-> 0, items |-> s]

\* Python truth value of a JSON value, as all([...]) takes it
Truthy(v) ==
    CASE v.kind = "none" -> FALSE
      [] v.kind = "int" -> v.val # 0
      [] v.kind = "text" -> TRUE
      [] v.kind = "list" -> v.items # <<>>

MsgFitMissing == "Missing required parameters. Please provide task_times, mapping, and num_cores."
MsgCoresPositive == "num_cores must be a positive integer."
MsgCoresInteger == "num_cores must be a valid integer."
MsgInvalidMapping == "Invalid mapping: core indices must be between 0 and "
MsgFitOk == "Fitness calculated successfully"
MsgIndexError == "An error occurred: list index out of range"
MsgZeroDivision == "An error occurred: division by zero"
MsgBadBody == "An error occurred: "

\* func.HttpResponse with a plain text body
TextResponse(code, msg, n) ==
    [status |-> code, message |-> msg, arg |-> n, has_result |-> FALSE,
     core_times |-> <<>>, total_time |-> 0, fitness |-> Frac(0, 1)]

\* ResultResponse, were the fitness the makespan itself and not its inverse
ResultResponseNotInverted(ct, total) ==
    [status |-> 200, message |-> MsgFitOk, arg |-> 0, has_result |-> TRUE,
     core_times |-> ct, total_time |-> total, fitness |-> Frac(total, 1)]

\* func.HttpResponse(json.dumps(response_body), status_code=200)
ResultResponse(ct, total) ==
    [status |-> 200, message |-> MsgFitOk, arg |-> 0, has_result |-> TRUE,
     core_times |-> ct, total_time |-> total, fitness |-> Frac(1, total)]

\* MappingOutOfRange, were the test of negative entries left out
MappingAboveRange(mapping, num_cores) ==
    \E i \in 1..Len(mapping) : mapping[i] >= num_cores

\* any(core < 0 or core >= num_cores for core in mapping)
MappingOutOfRange(mapping, num_cores) ==
    \E i \in 1..Len(mapping) : mapping[i] < 0 \/ mapping[i] >= num_cores

\* Position of core_times that core_times[core] addresses: Python counts a
\* negative index from the end of the list.
ListIndex(core, num_cores) == IF core < 0 THEN core + num_cores + 1 ELSE core + 1

\* AddTimes, were the loop's "+=" a plain "="
RECURSIVE AddTimesOverwrite(_, _, _, _)
AddTimesOverwrite(core_times, mapping, times, task) ==
    IF task > Len(mapping) THEN core_times
    ELSE AddTimesOverwrite([core_times EXCEPT ![ListIndex(mapping[task], Len(core_times))] =
                                                   times[task]],
                           mapping, times, task + 1)

\* The loop "for task, core in enumerate(mapping): core_times[core] +=
\* task_times[task]" from position `task` on.
RECURSIVE AddTimes(_, _, _, _)
AddTimes(core_times, mapping, times, task) ==
    IF task > Len(mapping) THEN core_times
    ELSE AddTimes([core_times EXCEPT ![ListIndex(mapping[task], Len(core_times))] =
                                          @ + times[task]],
                  mapping, times, task + 1)

\* core_times = [0] * num_cores, then the accumulation loop
CoreTimes(times, mapping, num_cores) ==
    AddTimes([c \in 1..num_cores |-> 0], mapping, times, 1)

\* The loop raises IndexError when the mapping is longer than task_times or
\* addresses a position core_times does not have.
IndexFault(times, mapping, num_cores) ==
    \/ Len(mapping) > Len(times)
    \/ \E i \in 1..Len(mapping) : mapping[i] >= num_cores \/ mapping[i] < -num_cores

\* Calculate, were a division by zero to give infinity instead of raising
CalculateUnguarded(times, mapping, num_cores) ==
    IF IndexFault(times, mapping, num_cores) THEN TextResponse(500, MsgIndexError, 0)
    ELSE ResultResponse(CoreTimes(times, mapping, num_cores),
                        MaxSeq(CoreTimes(times, mapping, num_cores)))

\* The "Calculate fitness" block, with the faults the handler's
\* "except Exception" turns into a 500.
Calculate(times, mapping, num_cores) ==
    IF IndexFault(times, mapping, num_cores) THEN TextResponse(500, MsgIndexError, 0)
    ELSE LET core_times == CoreTimes(times, mapping, num_cores)
             total_time == MaxSeq(core_times)
         IN  IF total_time = 0 THEN TextResponse(500, MsgZeroDivision, 0)
             ELSE ResultResponse(core_times, total_time)

\* The num_cores checks and what follows them; v is the body's num_cores.
CheckCores(times, mapping, v) ==
    IF v.kind # "int" THEN TextResponse(400, MsgCoresInteger, 0)
    ELSE IF v.val <= 0 THEN TextResponse(400, MsgCoresPositive, 0)
    ELSE IF MappingOutOfRange(mapping, v.val)
         THEN TextResponse(400, MsgInvalidMapping, v.val - 1)
    ELSE Calculate(times, mapping, v.val)

\* The handler: req is [json, task_times, mapping, num_cores].
fitnessTrigger(req) ==
    IF ~req.json THEN TextResponse(500, MsgBadBody, 0)
    ELSE IF ~(Truthy(req.task_times) /\ Truthy(req.mapping) /\ Truthy(req.num_cores))
         THEN TextResponse(400, MsgFitMissing, 0)
    ELSE CheckCores(req.task_times.items, req.mapping.items, req.num_cores)

\* The body the orchestrator posts for one individual
FitnessBody(times, mapping, num_cores) ==
    [json |-> TRUE, task_times |-> ListVal(times), mapping |-> ListVal(mapping),
     num_cores |-> IntVal(num_cores)]

\* ----------------------------------------------------- run parameters
\* A query parameter as req.params.get gives it: None (absent), the empty
\* string, a non-numeric string, or a numeric literal of value num/den.  An
\* integer literal has den = 1; a literal with a decimal point has
\* den = RateDenom (so "1.0" is num = RateDenom, den = RateDenom).
NoParam == [kind |-> "none", num |-> 0, den |-> 1]
EmptyParam == [kind |-> "empty", num |-> 0, den |-> 1]
TextParam == [kind |-> "text", num |-> 0, den |-> 1]
IntParam(n) == [kind |-> "num", num |-> n, den |-> 1]
DecParam(n) == [kind |-> "num", num |-> n, den |-> RateDenom]

IntFields == {"num_tasks", "num_cores", "num_islands", "num_generations", "migration_interval"}
RateFields == {"migration_rate", "mutation_rate"}
Fields == IntFields \cup RateFields

\* Python truth value of a query parameter (a str or None)
ParamTruthy(v) == v.kind \notin {"none", "empty"}

\* int(s) succeeds on an integer literal only
IntParses(v) == v.kind = "num" /\ v.den = 1

\* float(s) succeeds on any numeric literal
FloatParses(v) == v.kind = "num"

MsgMissing == "Missing required parameters. Please ensure all parameters are provided."
MsgInvalidInt == "Invalid parameter value: invalid literal for int() with base 10"
MsgInvalidFloat == "Invalid parameter value: could not convert string to float"
MsgTasks == "Number of tasks must be greater than zero."
MsgCores == "Number of cores must be greater than zero."
MsgIslands == "Number of islands must be greater than zero."
MsgGenerations == "Number of generations must be greater than zero."
MsgInterval == "Migration interval must be greater than zero."
MsgMigrationRate == "Migration rate must be between 0 and 1."
MsgMutationRate == "Mutation rate must be between 0 and 1."
MsgNone == ""

\* validated_params before validation and after a failed one
NoValidated ==
    [num_tasks |-> 0, num_cores |-> 0, num_islands |-> 0, num_generations |-> 0,
     migration_interval |-> 0, migration_rate |-> Frac(0, 1), mutation_rate |-> Frac(0, 1)]

\* The dictionary validate_parameters returns on success
Converted(params) ==
    [num_tasks |-> params["num_tasks"].num,
     num_cores |-> params["num_cores"].num,
     num_islands |-> params["num_islands"].num,
     num_generations |-> params["num_generations"].num,
     migration_interval |-> params["migration_interval"].num,
     migration_rate |-> Frac(params["migration_rate"].num, params["migration_rate"].den),
     mutation_rate |-> Frac(params["mutation_rate"].num, params["mutation_rate"].den)]

\* 0 <= rate <= 1
RateInRange(r) == LessEq(Frac(0, 1), r) /\ LessEq(r, Frac(1, 1))

\* RangeError, were the check of num_generations left out
RangeErrorNoGenerations(v) ==
    IF v.num_tasks <= 0 THEN MsgTasks
    ELSE IF v.num_cores <= 0 THEN MsgCores
    ELSE IF v.num_islands <= 0 THEN MsgIslands
    ELSE IF v.migration_interval <= 0 THEN MsgInterval
    ELSE IF ~RateInRange(v.migration_rate) THEN MsgMigrationRate
    ELSE IF ~RateInRange(v.mutation_rate) THEN MsgMutationRate
    ELSE MsgNone

\* RangeError, were num_generations checked before num_cores
RangeErrorGenerationsFirst(v) ==
    IF v.num_tasks <= 0 THEN MsgTasks
    ELSE IF v.num_generations <= 0 THEN MsgGenerations
    ELSE IF v.num_cores <= 0 THEN MsgCores
    ELSE IF v.num_islands <= 0 THEN MsgIslands
    ELSE IF v.migration_interval <= 0 THEN MsgInterval
    ELSE IF ~RateInRange(v.migration_rate) THEN MsgMigrationRate
    ELSE IF ~RateInRange(v.mutation_rate) THEN MsgMutationRate
    ELSE MsgNone

\* The range checks, in the code's order; "" when all pass
RangeError(v) ==
    IF v.num_tasks <= 0 THEN MsgTasks
    ELSE IF v.num_cores <= 0 THEN MsgCores
    ELSE IF v.num_islands <= 0 THEN MsgIslands
    ELSE IF v.num_generations <= 0 THEN MsgGenerations
    ELSE IF v.migration_interval <= 0 THEN MsgInterval
    ELSE IF ~RateInRange(v.migration_rate) THEN MsgMigrationRate
    ELSE IF ~RateInRange(v.mutation_rate) THEN MsgMutationRate
    ELSE MsgNone

\* validate_parameters: the pair (validated_params, error_message)
validate_parameters(params) ==
    IF ~(\A f \in Fields : ParamTruthy(params[f]))
    THEN [values |-> NoValidated, error |-> MsgMissing]
    ELSE IF ~(\A f \in IntFields : IntParses(params[f]))
    THEN [values |-> NoValidated, error |-> MsgInvalidInt]
    ELSE IF ~(\A f \in RateFields : FloatParses(params[f]))
    THEN [values |-> NoValidated, error |-> MsgInvalidFloat]
    ELSE IF RangeError(Converted(params)) # MsgNone
    THEN [values |-> NoValidated, error |-> RangeError(Converted(params))]
    ELSE [values |-> Converted(params), error |-> MsgNone]

\* ------------------------------------------------------------- operators
\* The values random.random() may return: 0 <= u < 1
UnitDraws == {Frac(k, RateDenom) : k \in 0..(RateDenom - 1)}

\* Fires, were the test "random.random() <= rate"
FiresInclusive(u, rate) == LessEq(u, rate)

\* "if random.random() < rate", for the draw u
Fires(u, rate) == Less(u, rate)

\* generate_task_times: each entry random.randint(1, 10)
TaskTimeDraws == {t \in MinTaskTime..MaxTaskTime : t <= TimeBound}
\* generate_task_times, were each entry random.randint(0, 10)
generate_task_times_from_zero(num_tasks) == [1..num_tasks -> {0} \cup TaskTimeDraws]

generate_task_times(num_tasks) == [1..num_tasks -> TaskTimeDraws]

\* generate_individual, were the upper end random.randint(0, num_cores)
generate_individual_inclusive(num_tasks, num_cores) == [1..num_tasks -> 0..num_cores]

\* generate_individual: each entry random.randint(0, num_cores - 1)
generate_individual(num_tasks, num_cores) == [1..num_tasks -> 0..(num_cores - 1)]

\* Reassign, were the assignment the slice individual[task_to_mutate:]
ReassignFrom(individual, task, new_core) ==
    [i \in 1..Len(individual) |-> IF i >= task THEN new_core ELSE individual[i]]

\* "individual[task_to_mutate] = new_core" (task_to_mutate + 1 = task)
Reassign(individual, task, new_core) == [individual EXCEPT ![task] = new_core]

\* The choices random.randint(0, len(individual) - 1) offers
MutableTasks(individual) == 1..Len(individual)

\* random.randint(0, max_value) raises on None and on an empty range
RandintRaises(max_value) == max_value.kind # "int" \/ max_value.val < 0

\* mutate(individual, mutation_rate, max_value): every outcome of one call,
\* as the list after the call and whether the call raised.  The list is
\* changed in place, so `individual` after the call is what every holder
\* of the reference sees.
mutate(individual, mutation_rate, max_value) ==
    {[individual |-> individual, raised |-> FALSE] :
        u \in {d \in UnitDraws : ~Fires(d, mutation_rate)}}
    \cup
    (IF \E u \in UnitDraws : Fires(u, mutation_rate)
     THEN IF MutableTasks(individual) = {} \/ RandintRaises(max_value)
          THEN {[individual |-> individual, raised |-> TRUE]}
          ELSE {[individual |-> Reassign(individual, task, new_core), raised |-> FALSE] :
                    task \in MutableTasks(individual), new_core \in 0..max_value.val}
     ELSE {})

\* [i for i in islands if i != island_id]
OtherIslands(islands, island) == (DOMAIN islands) \ {island}

\* MigrateOne, were target's individual at pick removed from target and
\* handed to island (a swap that keeps both sizes)
MigrateOneSwap(islands, island, target, migrant_index, pick) ==
    LET migrant == islands[island][migrant_index]
        replaced == [islands EXCEPT ![island][migrant_index] = islands[target][pick]]
    IN  [replaced EXCEPT ![target][pick] = migrant]

\* MigrateOne, were the migrant taken out of island's list (moved to
\* target, nothing put in its place)
MigrateOneMove(islands, island, target, migrant_index, pick) ==
    LET migrant == islands[island][migrant_index]
        removed == [islands EXCEPT ![island] =
                        SubSeq(@, 1, migrant_index - 1) \o SubSeq(@, migrant_index + 1, Len(@))]
    IN  [removed EXCEPT ![target] = Append(@, migrant)]

\* MigrateOne, were the migrant appended to target twice
MigrateOneAppendTwice(islands, island, target, migrant_index, pick) ==
    LET migrant == islands[island][migrant_index]
        replaced == [islands EXCEPT ![island][migrant_index] = islands[target][pick]]
    IN  [replaced EXCEPT ![target] = Append(Append(@, migrant), migrant)]

\* Lines 33-37: island hands the reference in slot migrant_index to target
\* and takes the reference target holds at position pick.
MigrateOne(islands, island, target, migrant_index, pick) ==
    LET migrant == islands[island][migrant_index]
        replaced == [islands EXCEPT ![island][migrant_index] = islands[target][pick]]
    IN  [replaced EXCEPT ![target] = Append(@, migrant)]

\* MigrateIsland, were the exchange made without the test of line 32
MigrateIslandAlways(islands, island, migration_rate) ==
    UNION {UNION {{MigrateOne(islands, island, target, migrant_index, pick) :
                       pick \in 1..Len(islands[target])} :
                   migrant_index \in 1..Len(islands[island])} :
            target \in OtherIslands(islands, island)}

\* One iteration of migrate's loop (lines 32-37) for one island: every
\* population it may leave.
MigrateIsland(islands, island, migration_rate) ==
    {islands : u \in {d \in UnitDraws : ~Fires(d, migration_rate)}}
    \cup
    (IF \E u \in UnitDraws : Fires(u, migration_rate)
     THEN UNION {UNION {{MigrateOne(islands, island, target, migrant_index, pick) :
                            pick \in 1..Len(islands[target])} :
                        migrant_index \in 1..Len(islands[island])} :
                 target \in OtherIslands(islands, island)}
     ELSE {})

\* MigrateReturnsAtOnce, were the test "if num_islands < 1"
MigrateReturnsAtOnceEmpty(islands) == Cardinality(DOMAIN islands) < 1

\* Lines 28-30: "if num_islands < 2: return islands"
MigrateReturnsAtOnce(islands) == Cardinality(DOMAIN islands) < 2

\* random.choice raises IndexError when no other island exists (line 33)
ChoiceRaises(islands, island) == OtherIslands(islands, island) = {}

\* One iteration of migrate's loop with the exception it may end in
MigrateOutcomes(islands, island, migration_rate) ==
    {[islands |-> next, raised |-> FALSE] :
        next \in MigrateIsland(islands, island, migration_rate)}
    \cup
    (IF ChoiceRaises(islands, island) /\ \E u \in UnitDraws : Fires(u, migration_rate)
     THEN {[islands |-> islands, raised |-> TRUE]}
     ELSE {})

\* MigrationDue, were migrate called in every generation
MigrationDueAlways(g, migration_interval) == g % 1 = 0

\* Line 149: "if generation % migration_interval == 0"
MigrationDue(g, migration_interval) == g % migration_interval = 0

\* send_to_fitness, were a failed post answered with a default score
send_to_fitness_default(data, delivered) ==
    IF ~delivered THEN [ok |-> TRUE, fitness |-> Frac(0, 1)]
    ELSE IF fitnessTrigger(data).status >= 400 THEN [ok |-> FALSE, fitness |-> Frac(0, 1)]
    ELSE [ok |-> TRUE, fitness |-> fitnessTrigger(data).fitness]

\* send_to_fitness: None (ok = FALSE) when the post or raise_for_status
\* raised a RequestException, else the response's JSON.  `delivered` is
\* whether the post came back with a response.
send_to_fitness(data, delivered) ==
    IF ~delivered THEN [ok |-> FALSE, fitness |-> Frac(0, 1)]
    ELSE IF fitnessTrigger(data).status >= 400 THEN [ok |-> FALSE, fitness |-> Frac(0, 1)]
    ELSE [ok |-> TRUE, fitness |-> fitnessTrigger(data).fitness]

\* ------------------------------------------------------------------ state
VARIABLES
    params,                     \* req.params of the population request
    pc,                         \* where init_population stands
    response,                   \* the HttpResponse init_population returned
    validated_params,           \* validate_parameters' dictionary
    task_times,                 \* the run's task-time vector
    heap,                       \* chromosome list objects, by object id
    islands_population,         \* island id -> list of object ids
    generation,                 \* the loop variable of line 140
    island_id,                  \* island the current inner loop is at
    slot,                       \* position in that island's list
    generation_fitness_scores,  \* scores of the generation under way
    fitness_scores,             \* the fitness history
    failures,                   \* posts of this run that failed in transport
    fit_request,                \* body of a direct fitnessTrigger request
    fit_response,               \* what fitnessTrigger answered to it
    mut,                        \* a stand-alone mutate call sequence
    mig,                        \* a stand-alone migrate call
    val                         \* a stand-alone validate_parameters call

vars == <<params, pc, response, validated_params, task_times, heap,
          islands_population, generation, island_id, slot,
          generation_fitness_scores, fitness_scores, failures,
          fit_request, fit_response, mut, mig, val>>

NoResponse == [status |-> 0, message |-> MsgNone]
MsgDone == "Evolution process completed successfully"

\* A request whose body is not a JSON object (also the value of fit_request
\* while the fitness endpoint is not addressed directly)
NoFitRequest == [json |-> FALSE, task_times |-> NoneVal, mapping |-> NoneVal, num_cores |-> NoneVal]
NoFitResponse == TextResponse(0, MsgNone, 0)

\* No stand-alone mutate call was made
NoMut == [individual |-> <<>>, original |-> <<>>, mutation_rate |-> Frac(0, 1),
          max_value |-> NoneVal, calls |-> 0, raised |-> FALSE]

\* No stand-alone migrate call was made
NoMig == [islands |-> <<>>, original |-> <<>>, migration_rate |-> Frac(0, 1),
          island |-> 0, state |-> "none"]

\* No stand-alone validate_parameters call was made
NoVal == [params |-> [f \in Fields |-> NoParam], values |-> NoValidated,
          error |-> MsgNone, status |-> 0, returned |-> FALSE]

\* ------------------------------------------------------ population request
FieldMax(f) ==
    CASE f = "num_tasks" -> MaxTasks
      [] f = "num_cores" -> MaxCores
      [] f = "num_islands" -> MaxIslands
      [] f = "num_generations" -> MaxGenerations
      [] f = "migration_interval" -> MaxInterval

\* Parameter values that pass validation
GoodValues(f) ==
    IF f \in IntFields THEN {IntParam(n) : n \in 1..FieldMax(f)}
    ELSE {DecParam(k) : k \in 0..RateDenom}

\* Parameter values that fail it: absent, empty, not a number, "0.5" for an
\* integer, and numbers out of range
BadValues(f) ==
    IF f \in IntFields
    THEN {NoParam, EmptyParam, TextParam, DecParam(1), IntParam(0)}
    ELSE {NoParam, TextParam, DecParam(-1), DecParam(RateDenom + 1)}

ValuesFor(f, bad) == IF f \in bad THEN BadValues(f) ELSE GoodValues(f)

\* The requests considered: at most MaxBad parameters fail validation
Requests ==
    UNION {[num_tasks : ValuesFor("num_tasks", bad),
            num_cores : ValuesFor("num_cores", bad),
            num_islands : ValuesFor("num_islands", bad),
            num_generations : ValuesFor("num_generations", bad),
            migration_interval : ValuesFor("migration_interval", bad),
            migration_rate : ValuesFor("migration_rate", bad),
            mutation_rate : ValuesFor("mutation_rate", bad)]
           : bad \in {b \in SUBSET Fields : Cardinality(b) <= MaxBad}}

IdleRun ==
    /\ pc = "idle"
    /\ params = [f \in Fields |-> NoParam]
    /\ response = NoResponse
    /\ validated_params = NoValidated
    /\ task_times = <<>>
    /\ heap = <<>>
    /\ islands_population = <<>>
    /\ generation = 0
    /\ island_id = 0
    /\ slot = 0
    /\ generation_fitness_scores = <<>>
    /\ fitness_scores = <<>>
    /\ failures = 0

IdleFit == fit_request = NoFitRequest /\ fit_response = NoFitResponse

IdleMut == mut = NoMut

IdleMig == mig = NoMig

IdleVal == val = NoVal

\* A population request arrives; nothing of the run exists yet.
Init ==
    /\ params \in Requests
    /\ pc = "request"
    /\ response = NoResponse
    /\ validated_params = NoValidated
    /\ task_times = <<>>
    /\ heap = <<>>
    /\ islands_population = <<>>
    /\ generation = 0
    /\ island_id = 0
    /\ slot = 0
    /\ generation_fitness_scores = <<>>
    /\ fitness_scores = <<>>
    /\ failures = 0
    /\ IdleFit
    /\ IdleMut
    /\ IdleMig
    /\ IdleVal

\* Lines 106-108: validation fails, the handler returns 400.
RejectRequest ==
    /\ pc = "request"
    /\ validate_parameters(params).error # MsgNone
    /\ pc' = "failed"
    /\ response' = [status |-> 400, message |-> validate_parameters(params).error]
    /\ UNCHANGED <<params, validated_params, task_times, heap, islands_population,
                   generation, island_id, slot, generation_fitness_scores,
                   fitness_scores, failures, fit_request, fit_response, mut, mig, val>>

\* The island ids of a population
IslandIds(n) == 0..(n - 1)

\* Lines 106-142: validation passes; task times and one individual per
\* island are generated, and generation 1 starts.
StartRun ==
    /\ pc = "request"
    /\ validate_parameters(params).error = MsgNone
    /\ LET v == validate_parameters(params).values
       IN  /\ validated_params' = v
           /\ task_times' \in generate_task_times(v.num_tasks)
           /\ heap' \in [IslandIds(v.num_islands) -> generate_individual(v.num_tasks, v.num_cores)]
           /\ islands_population' = [island \in IslandIds(v.num_islands) |-> <<island>>]
    /\ fitness_scores' = <<>>
    /\ generation' = 1
    /\ generation_fitness_scores' = <<>>
    /\ island_id' = 0
    /\ slot' = 1
    /\ pc' = "mutate"
    /\ UNCHANGED <<params, response, failures, fit_request, fit_response, mut, mig, val>>

\* The island loops: is (island, position) the last slot of the population?
LastSlot == slot >= Len(islands_population[island_id])
LastIsland == island_id >= validated_params.num_islands - 1

\* Step of a loop over every individual of every island; `after` is where
\* the handler goes once the loop ends.
AdvanceSlot(after) ==
    IF ~LastSlot THEN /\ slot' = slot + 1
                      /\ UNCHANGED <<island_id, pc>>
    ELSE IF ~LastIsland THEN /\ island_id' = island_id + 1
                             /\ slot' = 1
                             /\ UNCHANGED pc
    ELSE /\ island_id' = 0
         /\ slot' = 1
         /\ pc' = after

\* Lines 145-149: mutate is called on the individual in the current slot;
\* after the last one the test of line 149 decides whether migrate runs.
MutateStep ==
    /\ pc = "mutate"
    /\ LET obj == islands_population[island_id][slot]
       IN  \E out \in mutate(heap[obj], validated_params.mutation_rate,
                             IntVal(validated_params.num_cores - 1)) :
               heap' = [heap EXCEPT ![obj] = out.individual]
    /\ AdvanceSlot(IF MigrationDue(generation, validated_params.migration_interval)
                   THEN "migrate" ELSE "evaluate")
    /\ UNCHANGED <<params, response, validated_params, task_times, islands_population,
                   generation, generation_fitness_scores, fitness_scores,
                   failures, fit_request, fit_response, mut, mig, val>>

\* Lines 28-30: migrate returns at once when there is a single island.
MigrateSingle ==
    /\ pc = "migrate"
    /\ MigrateReturnsAtOnce(islands_population)
    /\ pc' = "evaluate"
    /\ UNCHANGED <<params, response, validated_params, task_times, heap,
                   islands_population, generation, island_id, slot,
                   generation_fitness_scores, fitness_scores,
                   failures, fit_request, fit_response, mut, mig, val>>

\* Lines 31-38: one iteration of migrate's loop, for island_id.
MigrateStep ==
    /\ pc = "migrate"
    /\ ~MigrateReturnsAtOnce(islands_population)
    /\ islands_population' \in MigrateIsland(islands_population, island_id,
                                             validated_params.migration_rate)
    /\ IF ~LastIsland THEN island_id' = island_id + 1 /\ UNCHANGED pc
       ELSE island_id' = 0 /\ pc' = "evaluate"
    /\ UNCHANGED <<params, response, validated_params, task_times, heap,
                   generation, slot, generation_fitness_scores, fitness_scores,
                   failures, fit_request, fit_response, mut, mig, val>>

\* Lines 153-163: the individual in the current slot is sent to the fitness
\* endpoint; its score is kept when an answer came back.
EvaluateStep ==
    /\ pc = "evaluate"
    /\ \E delivered \in {d \in BOOLEAN : d \/ failures < MaxFailures} :
          LET individual == heap[islands_population[island_id][slot]]
              result == send_to_fitness(FitnessBody(task_times, individual,
                                                    validated_params.num_cores), delivered)
          IN  /\ failures' = IF delivered THEN failures ELSE failures + 1
              /\ generation_fitness_scores' =
                     IF result.ok THEN Append(generation_fitness_scores, result.fitness)
                     ELSE generation_fitness_scores
    /\ AdvanceSlot("record")
    /\ UNCHANGED <<params, response, validated_params, task_times, heap,
                   islands_population, generation, fitness_scores,
                   fit_request, fit_response, mut, mig, val>>

\* RecordGeneration, were a generation without scores left out of the history
RecordGenerationIfScored ==
    /\ pc = "record"
    /\ fitness_scores' = IF generation_fitness_scores = <<>> THEN fitness_scores
                         ELSE Append(fitness_scores, generation_fitness_scores)
    /\ IF generation < validated_params.num_generations
       THEN /\ generation' = generation + 1
            /\ generation_fitness_scores' = <<>>
            /\ pc' = "mutate"
            /\ UNCHANGED response
       ELSE /\ pc' = "done"
            /\ response' = [status |-> 200, message |-> MsgDone]
            /\ UNCHANGED <<generation, generation_fitness_scores>>
    /\ UNCHANGED <<params, validated_params, task_times, heap, islands_population,
                   island_id, slot, failures, fit_request, fit_response, mut, mig, val>>

\* Lines 166, 140-142 and 170-183: the generation's scores join the history;
\* the next generation starts, or the handler returns 200.
RecordGeneration ==
    /\ pc = "record"
    /\ fitness_scores' = Append(fitness_scores, generation_fitness_scores)
    /\ IF generation < validated_params.num_generations
       THEN /\ generation' = generation + 1
            /\ generation_fitness_scores' = <<>>
            /\ pc' = "mutate"
            /\ UNCHANGED response
       ELSE /\ pc' = "done"
            /\ response' = [status |-> 200, message |-> MsgDone]
            /\ UNCHANGED <<generation, generation_fitness_scores>>
    /\ UNCHANGED <<params, validated_params, task_times, heap, islands_population,
                   island_id, slot, failures, fit_request, fit_response, mut, mig, val>>

Next ==
    \/ RejectRequest
    \/ StartRun
    \/ MutateStep
    \/ MigrateSingle
    \/ MigrateStep
    \/ EvaluateStep
    \/ RecordGeneration

Spec == Init /\ [][Next]_vars

\* --------------------------------------------- direct fitness requests
\* Bodies sent straight to the fitness endpoint: each field absent or
\* present, lists possibly empty or of different lengths, task times from
\* 0, mapping entries and num_cores from -1.
FitRequests ==
    {NoFitRequest} \cup
    [json : {TRUE},
     task_times : {NoneVal} \cup {ListVal(t) : t \in SeqsOf(0..FitMaxTime, 0, FitMaxLen)},
     mapping : {NoneVal} \cup {ListVal(m) : m \in SeqsOf((-1)..FitMaxCores, 0, FitMaxLen)},
     num_cores : {NoneVal, TextVal} \cup {IntVal(n) : n \in (-1)..FitMaxCores}]

InitFit ==
    /\ IdleRun
    /\ fit_request \in FitRequests
    /\ fit_response = NoFitResponse
    /\ IdleMut
    /\ IdleMig
    /\ IdleVal

\* fitnessTrigger answers the request.
HandleFitness ==
    /\ fit_response = NoFitResponse
    /\ fit_response' = fitnessTrigger(fit_request)
    /\ UNCHANGED <<params, pc, response, validated_params, task_times, heap,
                   islands_population, generation, island_id, slot,
                   generation_fitness_scores, fitness_scores, failures,
                   fit_request, mut, mig, val>>

NextFit == HandleFitness

SpecFit == InitFit /\ [][NextFit]_vars

\* --------------------------------------------- stand-alone mutate calls
\* Arguments of mutate: any list over the cores (the empty one included),
\* any rate in [0, 1], max_value an integer from -1 or the default None.
MutInputs ==
    {[individual |-> x, original |-> x, mutation_rate |-> Frac(k, RateDenom),
      max_value |-> m, calls |-> 0, raised |-> FALSE] :
        x \in SeqsOf(0..(MaxCores - 1), 0, MaxTasks),
        k \in 0..RateDenom,
        m \in {NoneVal} \cup {IntVal(n) : n \in (-1)..(MaxCores - 1)}}

InitMut ==
    /\ IdleRun
    /\ IdleFit
    /\ mut \in MutInputs
    /\ IdleMig
    /\ IdleVal

\* mutate is called once more on the same list, with the same arguments.
MutateCall ==
    /\ mut.calls < MaxCalls
    /\ \E out \in mutate(mut.individual, mut.mutation_rate, mut.max_value) :
          mut' = [mut EXCEPT !.individual = out.individual,
                             !.raised = out.raised,
                             !.calls = @ + 1]
    /\ UNCHANGED <<params, pc, response, validated_params, task_times, heap,
                   islands_population, generation, island_id, slot,
                   generation_fitness_scores, fitness_scores, failures,
                   fit_request, fit_response, mig, val>>

NextMut == MutateCall

SpecMut == InitMut /\ [][NextMut]_vars

\* -------------------------------------------- stand-alone migrate calls
\* A population of distinct list objects, lens[i] of them on island i
PopulationOf(lens) ==
    [i \in DOMAIN lens |-> [j \in 1..lens[i] |-> i * MigMaxLen + j - 1]]

\* Arguments of migrate: one island or more, none of them empty, any rate
\* in [0, 1].
MigInputs ==
    UNION {{[islands |-> PopulationOf(lens), original |-> PopulationOf(lens),
             migration_rate |-> Frac(k, RateDenom), island |-> 0,
             state |-> "called"] :
                lens \in [IslandIds(n) -> 1..MigMaxLen], k \in 0..RateDenom} :
           n \in 1..MigMaxIslands}

InitMig ==
    /\ IdleRun
    /\ IdleFit
    /\ IdleMut
    /\ mig \in MigInputs
    /\ IdleVal

MigUnchanged ==
    UNCHANGED <<params, pc, response, validated_params, task_times, heap,
                islands_population, generation, island_id, slot,
                generation_fitness_scores, fitness_scores, failures,
                fit_request, fit_response, mut, val>>

\* Lines 28-30 of a stand-alone call: a single island, migrate returns.
MigrateCallSingle ==
    /\ mig.state = "called"
    /\ MigrateReturnsAtOnce(mig.islands)
    /\ mig' = [mig EXCEPT !.state = "returned"]
    /\ MigUnchanged

\* Lines 31-38 of a stand-alone call: one iteration of the loop; after the
\* last island the call returns, and an exception ends it.
MigrateCallStep ==
    /\ mig.state \in {"called", "loop"}
    /\ ~MigrateReturnsAtOnce(mig.islands)
    /\ \E out \in MigrateOutcomes(mig.islands, mig.island, mig.migration_rate) :
          mig' = [mig EXCEPT !.islands = out.islands,
                             !.island = @ + 1,
                             !.state = IF out.raised THEN "raised"
                                       ELSE IF mig.island + 1 \in DOMAIN mig.islands
                                            THEN "loop" ELSE "returned"]
    /\ MigUnchanged

NextMig == MigrateCallSingle \/ MigrateCallStep

SpecMig == InitMig /\ [][NextMig]_vars

\* -------------------------------------- stand-alone request validation
\* Values of one parameter: the largest and, for a rate, the smallest that
\* pass validation, and every kind of value that fails it
ValValues(f) ==
    (IF f \in IntFields THEN {IntParam(FieldMax(f))}
     ELSE {DecParam(0), DecParam(RateDenom)})
    \cup BadValues(f)

\* The requests validated: any number of parameters may fail
ValRequests ==
    [num_tasks : ValValues("num_tasks"),
     num_cores : ValValues("num_cores"),
     num_islands : ValValues("num_islands"),
     num_generations : ValValues("num_generations"),
     migration_interval : ValValues("migration_interval"),
     migration_rate : ValValues("migration_rate"),
     mutation_rate : ValValues("mutation_rate")]

ValInputs ==
    [params : ValRequests, values : {NoValidated}, error : {MsgNone}, status : {0},
     returned : {FALSE}]

InitVal ==
    /\ IdleRun
    /\ IdleFit
    /\ IdleMut
    /\ IdleMig
    /\ val \in ValInputs

\* Lines 106-108: validate_parameters returns its pair, and an error
\* message is answered with status 400 (status 0: the handler goes on).
ValidateCall ==
    /\ ~val.returned
    /\ val' = [val EXCEPT !.values = validate_parameters(val.params).values,
                          !.error = validate_parameters(val.params).error,
                          !.status = IF validate_parameters(val.params).error # MsgNone
                                     THEN 400 ELSE 0,
                          !.returned = TRUE]
    /\ UNCHANGED <<params, pc, response, validated_params, task_times, heap,
                   islands_population, generation, island_id, slot,
                   generation_fitness_scores, fitness_scores, failures,
                   fit_request, fit_response, mut, mig>>

NextVal == ValidateCall

SpecVal == InitVal /\ [][NextVal]_vars

\* ================================================================ claims
Running == pc \in {"mutate", "migrate", "evaluate", "record"}

\* Number of individuals (slots) in the population
TotalIndividuals ==
    SumSeq([i \in 1..Cardinality(DOMAIN islands_population) |->
                Len(islands_population[i - 1])])

\* The chromosomes the population holds, slot by slot
Chromosomes ==
    UNION {{heap[islands_population[i][j]] : j \in 1..Len(islands_population[i])} :
           i \in DOMAIN islands_population}

\* C1: a run whose parameters pass validation appends one Generation Record
\* per generation, in generation order, so that the history holds
\* generation - 1 records while generation `generation` is under way and
\* exactly num_generations records at DONE, whatever mutation, migration and
\* the fitness posts did.
C1_OneRecordPerGeneration ==
    /\ Running => Len(fitness_scores) = generation - 1
    /\ pc = "done" => /\ Len(fitness_scores) = validated_params.num_generations
                      /\ validated_params.num_generations = params["num_generations"].num
                      /\ response.status = 200

\* C1 witness: a two-generation run is DONE after a migration and a failed post.
C1_Witness ==
    /\ pc = "done"
    /\ validated_params.num_generations = 2
    /\ failures > 0
    /\ TotalIndividuals > validated_params.num_islands

\* C2: in every state of a run every entry of every chromosome of every
\* island lies in [0, num_cores), and the mapping about to be posted is not
\* rejected by the fitness endpoint.
C2_GenesInRange ==
    /\ (Running \/ pc = "done") =>
          \A x \in Chromosomes : \A t \in 1..Len(x) :
              x[t] >= 0 /\ x[t] < validated_params.num_cores
    /\ pc = "evaluate" =>
          fitnessTrigger(FitnessBody(task_times, heap[islands_population[island_id][slot]],
                                     validated_params.num_cores)).status = 200

\* C2 witness: second generation, every call of mutate fires, an island has
\* grown by migration, and an individual is about to be evaluated.
C2_Witness ==
    /\ pc = "evaluate"
    /\ generation = 2
    /\ validated_params.mutation_rate = Frac(RateDenom, RateDenom)
    /\ validated_params.num_cores = 2
    /\ \E i \in DOMAIN islands_population : Len(islands_population[i]) >= 2

\* C3: a failed fitness post does not abort the run: the step goes on to the
\* next individual or to the end of the generation, adds no score, and
\* leaves the history, the population, the generation number and the
\* (absent) response as they were; a post that succeeds adds exactly one
\* score; at the end of a generation the record holds at most one score per
\* individual and misses at most one per failed post; a finished generation
\* is followed by the next one or by DONE, and no state of a run is FAILED.
C3_FailedPostTolerated ==
    [][/\ failures' # failures =>
             /\ pc = "evaluate"
             /\ pc' \in {"evaluate", "record"}
             /\ generation_fitness_scores' = generation_fitness_scores
             /\ fitness_scores' = fitness_scores
             /\ generation' = generation
             /\ response' = NoResponse
             /\ heap' = heap
             /\ islands_population' = islands_population
       /\ pc = "evaluate" =>
             \/ pc' = "evaluate" /\ island_id' = island_id /\ slot' = slot + 1
             \/ pc' = "evaluate" /\ island_id' = island_id + 1 /\ slot' = 1
             \/ pc' = "record"
       /\ (pc = "evaluate" /\ failures' = failures) =>
             Len(generation_fitness_scores') = Len(generation_fitness_scores) + 1
       /\ pc' = "record" =>
             /\ Len(generation_fitness_scores') <= TotalIndividuals'
             /\ Len(generation_fitness_scores') >= TotalIndividuals' - failures'
       /\ pc = "record" =>
             /\ fitness_scores' = Append(fitness_scores, generation_fitness_scores)
             /\ pc' = IF generation < validated_params.num_generations
                      THEN "mutate" ELSE "done"
       /\ Running => pc' # "failed"
      ]_vars

\* C3 witness: a two-generation run is DONE although a post of its first
\* generation failed (the first record is shorter than the population was).
C3_Witness ==
    /\ pc = "done"
    /\ validated_params.num_generations = 2
    /\ failures = 1
    /\ Len(fitness_scores[1]) < validated_params.num_islands
    /\ Len(fitness_scores[2]) >= validated_params.num_islands

\* The precondition of C4, stated on the request: some parameter is absent
\* or empty, is not a number of the field's type, or is out of range.
ParamInvalid(f, v) ==
    \/ v.kind # "num"
    \/ f \in IntFields /\ (v.den # 1 \/ v.num <= 0)
    \/ f \in RateFields /\ (v.num < 0 \/ v.num > v.den)

\* C4: when some run parameter is missing, non-numeric or out of range, the
\* handler answers 400 and nothing of a run exists: no task times, no
\* population, no generation, no score and no fitness post.
C4_InvalidRequestRejected ==
    (pc # "request" /\ \E f \in Fields : ParamInvalid(f, params[f])) =>
        /\ pc = "failed"
        /\ response.status = 400
        /\ response.message # MsgNone
        /\ validated_params = NoValidated
        /\ task_times = <<>>
        /\ heap = <<>>
        /\ islands_population = <<>>
        /\ generation = 0
        /\ generation_fitness_scores = <<>>
        /\ fitness_scores = <<>>
        /\ failures = 0

\* C4 witness: a request whose only fault is num_generations = 0 was answered.
C4_Witness ==
    /\ pc = "failed"
    /\ params["num_generations"] = IntParam(0)
    /\ \A f \in Fields \ {"num_generations"} : ~ParamInvalid(f, params[f])

\* ---------------------------------------------------- fitness endpoint
\* The direct request was answered
Answered == fit_response # NoFitResponse

\* task_times and mapping are present and non-empty lists
ListsGiven == fit_request.json /\ Truthy(fit_request.task_times) /\ Truthy(fit_request.mapping)

\* C5 (as claimed): a fitness request with non-empty task_times and mapping
\* and num_cores = 0, or any non-positive num_cores, is answered 400 with
\* the message "num_cores must be a positive integer." and no result.
C5_NonPositiveCoresMessage ==
    (Answered /\ ListsGiven /\ fit_request.num_cores.kind = "int"
              /\ fit_request.num_cores.val <= 0) =>
        /\ fit_response.status = 400
        /\ fit_response.message = MsgCoresPositive
        /\ ~fit_response.has_result

\* Some entry of the request's mapping is < 0 or >= num_cores, num_cores
\* being a positive integer
BadEntryGiven ==
    /\ fit_request.json
    /\ fit_request.num_cores.kind = "int"
    /\ fit_request.num_cores.val > 0
    /\ fit_request.mapping.kind = "list"
    /\ \E i \in 1..Len(fit_request.mapping.items) :
          \/ fit_request.mapping.items[i] < 0
          \/ fit_request.mapping.items[i] >= fit_request.num_cores.val

\* The answer is the 400 of the mapping check, with nothing computed
InvalidMappingAnswer ==
    /\ fit_response.status = 400
    /\ fit_response.message = MsgInvalidMapping
    /\ fit_response.arg = fit_request.num_cores.val - 1
    /\ ~fit_response.has_result
    /\ fit_response.core_times = <<>>

\* C6 (as claimed): every fitness request with a positive num_cores and a
\* mapping entry out of range is answered 400 with the invalid-mapping message.
C6_AsClaimed == (Answered /\ BadEntryGiven) => InvalidMappingAnswer

\* C6 (amended): every fitness request with non-empty task_times, a positive
\* num_cores and a mapping entry < 0 or >= num_cores is answered 400 with
\* the invalid-mapping message and no core_times, total_time or fitness; and
\* whatever the request, a mapping with an entry out of range gets no result.
C6_OutOfRangeRejected ==
    /\ (Answered /\ BadEntryGiven /\ ListsGiven) => InvalidMappingAnswer
    /\ (Answered /\ BadEntryGiven) => (fit_response.status = 400 /\ ~fit_response.has_result)
    /\ fitnessTrigger(FitnessBody(<<1, 1>>, <<0, 5>>, 2)).status = 400
    /\ fitnessTrigger(FitnessBody(<<1, 1>>, <<0, 5>>, 2)).message = MsgInvalidMapping

\* C6 witness: mapping [1, -1] with num_cores = 2, an entry Python would
\* have wrapped onto the last core, was answered by the mapping check.
C6_Witness ==
    /\ Answered
    /\ fit_request.task_times = ListVal(<<1, 2>>)
    /\ fit_request.mapping = ListVal(<<1, -1>>)
    /\ fit_request.num_cores = IntVal(2)
    /\ fit_response.status = 400

\* A valid evaluation input: a task-time vector (entries >= 1) and a mapping
\* of the same length with entries in [0, num_cores)
ValidEvaluation ==
    /\ ListsGiven
    /\ fit_request.num_cores.kind = "int"
    /\ fit_request.num_cores.val > 0
    /\ Len(fit_request.mapping.items) = Len(fit_request.task_times.items)
    /\ \A i \in 1..Len(fit_request.task_times.items) : fit_request.task_times.items[i] >= 1
    /\ \A i \in 1..Len(fit_request.mapping.items) :
          /\ fit_request.mapping.items[i] >= 0
          /\ fit_request.mapping.items[i] < fit_request.num_cores.val

\* C7: for a task-time vector t and a valid mapping of the same length the
\* answer is a result whose core_times has num_cores entries that add up to
\* sum(t).
C7_WorkConserved ==
    (Answered /\ ValidEvaluation) =>
        /\ fit_response.status = 200
        /\ fit_response.has_result
        /\ Len(fit_response.core_times) = fit_request.num_cores.val
        /\ SumSeq(fit_response.core_times) = SumSeq(fit_request.task_times.items)

\* C7 witness: two tasks of different cost on the same core of two.
C7_Witness ==
    /\ Answered
    /\ ValidEvaluation
    /\ fit_request.task_times = ListVal(<<1, 2>>)
    /\ fit_request.mapping = ListVal(<<1, 1>>)
    /\ fit_request.num_cores = IntVal(2)

\* Sum of times[i] over the tasks i of the set S
RECURSIVE SumOver(_, _)
SumOver(S, times) ==
    IF S = {} THEN 0
    ELSE LET i == CHOOSE x \in S : TRUE IN times[i] + SumOver(S \ {i}, times)

\* The tasks a mapping assigns to core c
TasksOn(mapping, c) == {i \in 1..Len(mapping) : mapping[i] = c}

\* The result of the spec's concrete case
ConcreteCase == fitnessTrigger(FitnessBody(<<2, 3, 4>>, <<0, 1, 0>>, 2))

\* C8: for a valid evaluation input core_times[c] is the sum of the times of
\* exactly the tasks mapped to c, total_time is the largest core time and
\* fitness is 1/total_time; task_times [2,3,4], mapping [0,1,0], num_cores 2
\* give core_times [6,3], total_time 6 and fitness 1/6.
C8_LoadsMakespanFitness ==
    /\ (Answered /\ ValidEvaluation) =>
          /\ fit_response.has_result
          /\ \A c \in 0..(fit_request.num_cores.val - 1) :
                fit_response.core_times[c + 1] =
                    SumOver(TasksOn(fit_request.mapping.items, c), fit_request.task_times.items)
          /\ \E c \in 1..Len(fit_response.core_times) :
                fit_response.total_time = fit_response.core_times[c]
          /\ \A c \in 1..Len(fit_response.core_times) :
                fit_response.core_times[c] <= fit_response.total_time
          /\ fit_response.fitness = Frac(1, fit_response.total_time)
    /\ ConcreteCase.core_times = <<6, 3>>
    /\ ConcreteCase.total_time = 6
    /\ ConcreteCase.fitness = Frac(1, 6)

\* C8 witness: a result whose cores carry different loads, the larger one
\* made of two tasks.
C8_Witness ==
    /\ Answered
    /\ ValidEvaluation
    /\ fit_request.task_times = ListVal(<<2, 1>>)
    /\ fit_request.mapping = ListVal(<<0, 0>>)
    /\ fit_request.num_cores = IntVal(2)
    /\ fit_response.total_time = 3

\* ---------------------------------------------------------------- mutate
\* C9: with mutation_rate 0 the list is as it was given after any number of
\* calls of mutate, and no call raises.
C9_RateZeroNoChange ==
    mut.mutation_rate.num = 0 => (mut.individual = mut.original /\ ~mut.raised)

\* C9 witness: mutate was called MaxCalls times at rate 0 on a two-task list.
C9_Witness ==
    /\ mut.mutation_rate.num = 0
    /\ mut.calls = MaxCalls
    /\ Len(mut.individual) = 2
    /\ mut.max_value = IntVal(1)

\* Positions at which two lists of the same length differ
Differing(x, y) == {i \in 1..Len(x) : x[i] # y[i]}

\* C10: one call of mutate, at any rate, changes the value at no more than
\* one position and never the length of the list.
C10_AtMostOnePosition ==
    [][/\ Len(mut'.individual) = Len(mut.individual)
       /\ Cardinality(Differing(mut.individual, mut'.individual)) <= 1]_vars

\* C10 witness: at rate 1 calls of mutate changed a two-task list.
C10_Witness ==
    /\ mut.mutation_rate = Frac(RateDenom, RateDenom)
    /\ mut.calls >= 1
    /\ Len(mut.individual) = 2
    /\ mut.individual # mut.original
    /\ ~mut.raised

\* ---------------------------------------------------------------- C11
\* C11: migrate called on a population of a single island returns that
\* population unchanged, whatever the migration rate: the call returns
\* (it does not raise) and every island holds the list it held.
C11_SingleIslandUnchanged ==
    (Cardinality(DOMAIN mig.original) = 1 /\ mig.state # "called")
        => (mig.state = "returned" /\ mig.islands = mig.original)

\* A call with rate 1 on one island of MigMaxLen individuals has returned
C11_Witness ==
    /\ mig.state = "returned"
    /\ DOMAIN mig.original = {0}
    /\ Len(mig.original[0]) = MigMaxLen
    /\ mig.migration_rate = Frac(RateDenom, RateDenom)
    /\ mig.islands = mig.original

\* ---------------------------------------------------------------- C12
\* C12: migrate called with migration rate 0 returns the population
\* unchanged: no island is taken as a source, no slot is overwritten and no
\* island grows, at any point of the call.
C12_RateZeroUnchanged ==
    (mig.state # "none" /\ mig.migration_rate.num = 0)
        => /\ mig.state # "raised"
           /\ mig.islands = mig.original
           /\ \A i \in DOMAIN mig.islands : Len(mig.islands[i]) = Len(mig.original[i])

\* A call with rate 0 on MigMaxIslands islands of MigMaxLen individuals each
\* went through its loop and returned
C12_Witness ==
    /\ mig.state = "returned"
    /\ mig.migration_rate.num = 0
    /\ Cardinality(DOMAIN mig.original) = MigMaxIslands
    /\ \A i \in DOMAIN mig.original : Len(mig.original[i]) = MigMaxLen
    /\ mig.island = MigMaxIslands

\* ---------------------------------------------------------------- C13
\* The run parameters in the order the code reads and checks them
FieldOrder ==
    <<"num_tasks", "num_cores", "num_islands", "num_generations",
      "migration_interval", "migration_rate", "mutation_rate">>

\* The parameter an error message names ("" when it names none)
NamedField(msg) ==
    CASE msg = MsgTasks -> "num_tasks"
      [] msg = MsgCores -> "num_cores"
      [] msg = MsgIslands -> "num_islands"
      [] msg = MsgGenerations -> "num_generations"
      [] msg = MsgInterval -> "migration_interval"
      [] msg = MsgMigrationRate -> "migration_rate"
      [] msg = MsgMutationRate -> "mutation_rate"
      [] OTHER -> ""

\* The first parameter, in FieldOrder, that is missing, not a number of its
\* type, or out of range
FirstInvalid(p) ==
    LET bad == {i \in 1..Len(FieldOrder) : ParamInvalid(FieldOrder[i], p[FieldOrder[i]])}
    IN  FieldOrder[CHOOSE i \in bad : \A j \in bad : i <= j]

SomeInvalid(p) == \E f \in Fields : ParamInvalid(f, p[f])

\* A parameter that is absent or empty / present but not a literal of its type
ParamAbsent(v) == v.kind \in {"none", "empty"}
ParamUnparsed(f, v) ==
    v.kind = "text" \/ (f \in IntFields /\ v.kind = "num" /\ v.den # 1)

\* C13 as stated: every validation failure of the run parameters is answered
\* 400 with a message that names the first failing parameter, a missing or
\* non-numeric one included.
C13_AsClaimed ==
    (val.returned /\ SomeInvalid(val.params))
        => (val.status = 400 /\ NamedField(val.error) = FirstInvalid(val.params))

\* C13 (amended): every validation failure of the run parameters is answered
\* 400 with a message.  When some parameter is absent or empty the message
\* is the general missing-parameters one; otherwise, when some parameter is
\* not a literal of its type, it is the parser's "Invalid parameter value"
\* one; neither names a parameter.  When all parameters are present and
\* parse, the message names the first out-of-range parameter.
C13_FailureMessages ==
    (val.returned /\ SomeInvalid(val.params))
        => /\ val.status = 400
           /\ val.values = NoValidated
           /\ IF \E f \in Fields : ParamAbsent(val.params[f])
              THEN val.error = MsgMissing /\ NamedField(val.error) = ""
              ELSE IF \E f \in Fields : ParamUnparsed(f, val.params[f])
              THEN /\ val.error \in {MsgInvalidInt, MsgInvalidFloat}
                   /\ NamedField(val.error) = ""
              ELSE NamedField(val.error) = FirstInvalid(val.params)

\* A request with num_cores = 0 and num_generations = 0, all else in range,
\* was answered with the message about the cores
C13_Witness ==
    /\ val.returned
    /\ val.params["num_cores"] = IntParam(0)
    /\ val.params["num_generations"] = IntParam(0)
    /\ \A f \in Fields \ {"num_cores", "num_generations"} : ~ParamInvalid(f, val.params[f])
    /\ val.status = 400
    /\ val.error = MsgCores

\* ---------------------------------------------------------------- C14
\* The slots of the population, as pairs <<island, position>>
Slots ==
    UNION {{<<i, j>> : j \in 1..Len(islands_population[i])} :
           i \in DOMAIN islands_population}

\* No list object sits in two slots
NoSharedSlots ==
    \A a \in Slots, b \in Slots :
        a # b => islands_population[a[1]][a[2]] # islands_population[b[1]][b[2]]

\* C14 as stated: no two population slots hold the same underlying
\* chromosome (what migration puts into the source island is a copy), so a
\* call of mutate on the individual of one slot leaves the chromosome seen
\* in every other slot as it was.
C14_SlotsIndependent ==
    [][pc = "mutate" =>
        /\ NoSharedSlots
        /\ \A b \in Slots \ {<<island_id, slot>>} :
              heap'[islands_population[b[1]][b[2]]] = heap[islands_population[b[1]][b[2]]]]_vars

\* ---------------------------------------------------------------- C15
\* The islands whose list an iteration of migrate's loop left different
ChangedIslands == {i \in DOMAIN mig.islands : mig'.islands[i] # mig.islands[i]}

\* The positions of island i's list whose entry the iteration replaced
ChangedSlots(i) ==
    {j \in 1..Len(mig.islands[i]) : mig'.islands[i][j] # mig.islands[i][j]}

\* S (= mig.island) exchanged with T in this iteration: S keeps its size and
\* all but at most one entry, the entry put into that slot is one T held; T
\* keeps every entry it held, in place, and has one more at its end, which
\* is an individual S held and, when S's list changed, the one S lost;
\* every other island is as it was.
ExchangedWith(S, T) ==
    /\ T # S
    /\ Len(mig'.islands[S]) = Len(mig.islands[S])
    /\ Cardinality(ChangedSlots(S)) <= 1
    /\ \A j \in ChangedSlots(S) :
          /\ \E k \in 1..Len(mig.islands[T]) : mig'.islands[S][j] = mig.islands[T][k]
          /\ mig'.islands[T][Len(mig'.islands[T])] = mig.islands[S][j]
    /\ Len(mig'.islands[T]) = Len(mig.islands[T]) + 1
    /\ SubSeq(mig'.islands[T], 1, Len(mig.islands[T])) = mig.islands[T]
    /\ \E j \in 1..Len(mig.islands[S]) :
          /\ mig'.islands[T][Len(mig'.islands[T])] = mig.islands[S][j]
          /\ \E k \in 1..Len(mig.islands[T]) :
                mig'.islands[S] = [mig.islands[S] EXCEPT ![j] = mig.islands[T][k]]
    /\ \A i \in DOMAIN mig.islands \ {S, T} : mig'.islands[i] = mig.islands[i]

\* C15: in a migrate call on at least two islands, an island S that triggers
\* picks a target T other than S; S keeps its size, only the chosen slot of S
\* is overwritten, with an individual T holds; nothing is removed from T, and
\* T grows by exactly one, the individual S held in that slot being appended
\* at T's end; the other islands are untouched.  An island that does not
\* trigger leaves the population as it is.
C15_ExchangeEffect ==
    [][(mig.state \in {"called", "loop"} /\ Cardinality(DOMAIN mig.islands) >= 2)
        => /\ DOMAIN mig'.islands = DOMAIN mig.islands
           /\ mig'.state # "raised"
           /\ \/ mig'.islands = mig.islands
              \/ \E T \in DOMAIN mig.islands : ExchangedWith(mig.island, T)]_vars

\* A call on three islands at rate 1 returned: all three triggered, islands
\* 0 and 1 both chose island 2 (which holds three more individuals, the
\* last one being an individual island 1 held) and island 2 chose island 0
C15_Witness ==
    /\ mig.state = "returned"
    /\ mig.migration_rate = Frac(RateDenom, RateDenom)
    /\ DOMAIN mig.islands = {0, 1, 2}
    /\ Len(mig.original[0]) = MigMaxLen
    /\ Len(mig.islands[0]) = Len(mig.original[0]) + 1
    /\ Len(mig.islands[1]) = Len(mig.original[1])
    /\ Len(mig.islands[2]) = Len(mig.original[2]) + 2
    /\ \E j \in 1..Len(mig.original[1]) :
          mig.islands[2][Len(mig.islands[2])] = mig.original[1][j]

\* ---------------------------------------------------------------- C16
\* C16: during a run migrate is at work in generation g only when
\* g mod migration_interval = 0, and no other step of a generation changes
\* which individuals an island holds (mutation changes genes in place, the
\* lists of references stay as they are): in a generation without migration
\* every island ends with the members it started with.
C16_MigrationOnlyWhenDue ==
    [][Running =>
        /\ pc' = "migrate" => generation' % validated_params'.migration_interval = 0
        /\ islands_population' # islands_population
              => (pc = "migrate" /\ generation % validated_params.migration_interval = 0)]_vars

\* Generation 1 of a two-island run with migration_interval 2 and migration
\* rate 1 reached its end with every island holding its first individual
C16_Witness ==
    /\ pc = "record"
    /\ generation = 1
    /\ validated_params.migration_interval = 2
    /\ validated_params.migration_rate = Frac(RateDenom, RateDenom)
    /\ validated_params.num_islands = 2
    /\ islands_population = [i \in {0, 1} |-> <<i>>]

\* ---------------------------------------------------------------- C17
\* C17: from the moment the population exists to the end of the run its keys
\* are exactly the island ids 0..num_islands-1, every island holds at least
\* one chromosome, and every chromosome has num_tasks genes.
C17_PopulationShape ==
    (Running \/ pc = "done") =>
        /\ DOMAIN islands_population = 0..(validated_params.num_islands - 1)
        /\ \A i \in DOMAIN islands_population :
              /\ Len(islands_population[i]) >= 1
              /\ \A j \in 1..Len(islands_population[i]) :
                    /\ islands_population[i][j] \in DOMAIN heap
                    /\ Len(heap[islands_population[i][j]]) = validated_params.num_tasks

\* A run of two islands and two tasks ended with an island that migration
\* had grown to three chromosomes
C17_Witness ==
    /\ pc = "done"
    /\ validated_params.num_islands = 2
    /\ validated_params.num_tasks = 2
    /\ \E i \in DOMAIN islands_population : Len(islands_population[i]) = 3

\* ---------------------------------------------------------------- C18
\* What the fitness endpoint answers to the evaluation the run is about to
\* post
IssuedEvaluation ==
    fitnessTrigger(FitnessBody(task_times, heap[islands_population[island_id][slot]],
                               validated_params.num_cores))

\* C18: in a run every task time is at least 1 and there is at least one
\* task, so every evaluation the run posts computes a total_time of at least
\* 1 and the division 1 / total_time never divides by zero.
C18_TotalTimePositive ==
    /\ Running =>
          /\ Len(task_times) >= 1
          /\ \A t \in 1..Len(task_times) : task_times[t] >= 1
    /\ pc = "evaluate" =>
          /\ IssuedEvaluation.has_result
          /\ IssuedEvaluation.total_time >= 1
          /\ IssuedEvaluation.message # MsgZeroDivision
          /\ IssuedEvaluation.fitness = Frac(1, IssuedEvaluation.total_time)

\* In generation 2 a chromosome that puts both tasks on core 0 (core 1 idle,
\* its time 0) is about to be evaluated
C18_Witness ==
    /\ pc = "evaluate"
    /\ generation = 2
    /\ validated_params.num_cores = 2
    /\ heap[islands_population[island_id][slot]] = <<0, 0>>
    /\ IssuedEvaluation.core_times = <<2, 0>>

\* ---------------------------------------------------------------- C19
\* A direct fitness request that is valid but for its task times, all of
\* which are 0
ZeroTimeRequest ==
    /\ fit_request.json
    /\ fit_request.task_times.kind = "list"
    /\ fit_request.mapping.kind = "list"
    /\ Len(fit_request.task_times.items) >= 1
    /\ Len(fit_request.mapping.items) = Len(fit_request.task_times.items)
    /\ \A i \in 1..Len(fit_request.task_times.items) : fit_request.task_times.items[i] = 0
    /\ fit_request.num_cores.kind = "int"
    /\ fit_request.num_cores.val >= 1
    /\ \A i \in 1..Len(fit_request.mapping.items) :
          /\ fit_request.mapping.items[i] >= 0
          /\ fit_request.mapping.items[i] < fit_request.num_cores.val

\* C19: a direct fitness request whose task times are all 0 (total_time 0)
\* is answered with the error response for the division by zero, status 500;
\* it is never answered 200, and no fitness, infinite or other, is returned.
C19_ZeroTotalTimeFails ==
    (Answered /\ ZeroTimeRequest) =>
        /\ fit_response.status = 500
        /\ fit_response.message = MsgZeroDivision
        /\ ~fit_response.has_result
        /\ fit_response.status # 200

\* The request {task_times: [0, 0], mapping: [0, 1], num_cores: 2} was answered
C19_Witness ==
    /\ Answered
    /\ ZeroTimeRequest
    /\ fit_request.task_times.items = <<0, 0>>
    /\ fit_request.mapping.items = <<0, 1>>
    /\ fit_request.num_cores.val = 2
    /\ fit_response.status = 500

\* ---------------------------------------------------------------- C20
\* The migrate calls of the run so far, the one under way included: one per
\* generation g <= generation with g mod migration_interval = 0
MigrateCalls ==
    IF pc = "mutate" THEN (generation - 1) \div validated_params.migration_interval
    ELSE generation \div validated_params.migration_interval

\* The total number of individuals lies between num_islands and
\* num_islands * (1 + number of migrate calls)
WithinGrowthBound ==
    /\ TotalIndividuals >= validated_params.num_islands
    /\ TotalIndividuals <= validated_params.num_islands * (1 + MigrateCalls)

\* C20: no step of a run makes an island smaller; an iteration of migrate's
\* loop adds exactly one individual to the population when its island
\* triggered (always at rate 1, never at rate 0) and none when it did not,
\* so a migrate call adds as many individuals as islands triggered; and in
\* every state of a run, at generation g, the total number of individuals
\* is at least num_islands and at most num_islands * (1 + floor(g /
\* migration_interval)), the bound before generation g's own migrate call
\* being the one of generation g - 1.
C20_GrowthBound ==
    [][/\ (Running' \/ pc' = "done") => WithinGrowthBound'
       /\ Running =>
             \A i \in DOMAIN islands_population :
                 Len(islands_population'[i]) >= Len(islands_population[i])
       /\ (pc = "migrate" /\ validated_params.num_islands >= 2) =>
             /\ TotalIndividuals' =
                    TotalIndividuals + (IF islands_population' # islands_population THEN 1 ELSE 0)
             /\ validated_params.migration_rate = Frac(RateDenom, RateDenom)
                    => TotalIndividuals' = TotalIndividuals + 1
             /\ validated_params.migration_rate.num = 0
                    => TotalIndividuals' = TotalIndividuals
       /\ (Running /\ pc # "migrate") => TotalIndividuals' = TotalIndividuals]_vars

\* A run of two islands with migration_interval 1 ended after two generations
\* in which every island triggered: the population holds 2 * (1 + 2)
\* individuals, the bound
C20_Witness ==
    /\ pc = "done"
    /\ validated_params.num_islands = 2
    /\ validated_params.migration_interval = 1
    /\ generation = 2
    /\ TotalIndividuals = 6
    /\ TotalIndividuals = validated_params.num_islands * (1 + MigrateCalls)

====
